---- MODULE Spec2Model ----
(***************************************************************************)
(* Model of the base converter (src/src/main.rs).                          *)
(*                                                                         *)
(* A Rust String is modelled as a sequence of character codes (ASCII), so  *)
(* that the character comparisons and the arithmetic on characters of the  *)
(* source are computed as the source computes them.  A usize is a natural  *)
(* number below 2^UsizeBits.  Arithmetic overflow follows the build        *)
(* profile: it panics when overflow checks are on (debug) and wraps when   *)
(* they are off (release); the profile is the variable overflow_checks.    *)
(***************************************************************************)
EXTENDS Integers, Sequences, FiniteSets, TLC

(* ------------------------------ bounds --------------------------------- *)

\* width of usize in the model (64 on the usual target)
UsizeBits == 8

\* longest digit body of a value drawn as input
MaxDigits == 2

(* ----------------------------- constants -------------------------------- *)

\* largest u8
U8Max == 255

\* '0' : the offset added to 0..9 by char_map
Zero == 48

\* 'a' - 10 : the offset added to 10..36 by char_map
AlphaOff == 87

\* '-'
Minus == 45

\* '+' (accepted as a sign by str::parse::<usize>)
Plus == 43

\* exit status of a Rust process that panics
PanicStatus == 101

\* Option::None of char_map and map_char
None == -1

RECURSIVE Pow2(_)
Pow2(n) == IF n = 0 THEN 1 ELSE 2 * Pow2(n - 1)

UsizeMax == Pow2(UsizeBits) - 1

BaseMin == 2

BaseMax == 36

Bases == BaseMin..BaseMax

(* ------------------------------ state ----------------------------------- *)

VARIABLES
    overflow_checks, \* build profile: TRUE panics on overflow, FALSE wraps
    pc,              \* position of the run
    args,            \* env::args().skip(1): a sequence of strings
    stdout,          \* lines printed by println!
    stderr,          \* kind of the diagnostic written to the error stream
    exit_code,       \* exit status of the process, None while running
    call,            \* unit tests: the function called with its inputs
    ret              \* unit tests: what the call returned

vars == <<overflow_checks, pc, args, stdout, stderr, exit_code, call, ret>>

(* --------------------------- results ------------------------------------ *)

\* a returned value
Ok(v) == [ok |-> TRUE, val |-> v, err |-> "none"]

\* a panic in a function that returns a number
PanicNum(why) == [ok |-> FALSE, val |-> 0, err |-> why]

\* a panic in a function that returns a String
PanicStr(why) == [ok |-> FALSE, val |-> <<>>, err |-> why]

(* ----------------------------- digit codec ------------------------------ *)

\* char_map with the upper arm written 10..=35
char_map_excl(i) ==
    IF i >= 0 /\ i <= 9 THEN i + Zero
    ELSE IF i >= 10 /\ i <= 35 THEN i + AlphaOff
    ELSE None

char_map(i) ==
    IF i >= 0 /\ i <= 9 THEN i + Zero
    ELSE IF i >= 10 /\ i <= 36 THEN i + AlphaOff
    ELSE None

to_ascii_lowercase(c) == IF c >= 65 /\ c <= 90 THEN c + 32 ELSE c

\* map_char that maps a character outside the two ranges to digit 0
map_char_lenient(c) ==
    LET c_low == to_ascii_lowercase(c)
    IN  IF c_low >= Zero /\ c_low <= Zero + 9 THEN c_low - Zero
        ELSE IF c_low >= AlphaOff + 10 /\ c_low <= AlphaOff + 35 THEN c_low - AlphaOff
        ELSE 0

map_char(c) ==
    LET c_low == to_ascii_lowercase(c)
    IN  IF c_low >= Zero /\ c_low <= Zero + 9 THEN c_low - Zero
        ELSE IF c_low >= AlphaOff + 10 /\ c_low <= AlphaOff + 35 THEN c_low - AlphaOff
        ELSE None

(* ------------------------- usize arithmetic ----------------------------- *)

\* a + b on usize
usize_add(a, b) ==
    IF a + b <= UsizeMax THEN Ok(a + b)
    ELSE IF overflow_checks THEN PanicNum("overflow")
    ELSE Ok((a + b) % (UsizeMax + 1))

\* a * b on usize
usize_mul(a, b) ==
    IF a * b <= UsizeMax THEN Ok(a * b)
    ELSE IF overflow_checks THEN PanicNum("overflow")
    ELSE Ok((a * b) % (UsizeMax + 1))

\* usize::pow(base, exp): the product of exp factors, each step on usize
RECURSIVE usize_pow(_, _)
usize_pow(base, exp) ==
    IF exp = 0 THEN Ok(1)
    ELSE LET p == usize_pow(base, exp - 1)
         IN  IF p.ok THEN usize_mul(p.val, base) ELSE p

(* ----------------------- str::parse and format! ------------------------- *)

\* the digits of str::parse, most significant first, with checked arithmetic
RECURSIVE parse_digits(_, _, _)
parse_digits(s, acc, max) ==
    IF s = <<>> THEN Ok(acc)
    ELSE LET c == Head(s)
         IN  IF c < Zero \/ c > Zero + 9 THEN PanicNum("parse")
             ELSE IF acc * 10 + (c - Zero) > max THEN PanicNum("parse")
             ELSE parse_digits(Tail(s), acc * 10 + (c - Zero), max)

\* s.parse::<unsigned>() : Ok(n), or not ok for Err(_)
parse_unsigned(s, max) ==
    IF s = <<>> THEN PanicNum("parse")
    ELSE IF Head(s) \in {Plus, Minus} /\ Len(s) = 1 THEN PanicNum("parse")
    ELSE IF Head(s) = Plus THEN parse_digits(Tail(s), 0, max)
    ELSE parse_digits(s, 0, max)

\* format!("{}", n) of a usize
RECURSIVE format_usize(_)
format_usize(n) ==
    IF n < 10 THEN <<n + Zero>>
    ELSE Append(format_usize(n \div 10), (n % 10) + Zero)

(* ------------------------------ decoder --------------------------------- *)

\* the for loop of base_to_dec: i counts characters from the right
RECURSIVE base_to_dec_loop(_, _, _, _)
base_to_dec_loop(in_str, base, i, out_val) ==
    IF i = Len(in_str) THEN Ok(out_val)
    ELSE LET char_val == map_char(in_str[Len(in_str) - i])
         IN  IF char_val = None THEN PanicNum("unwrap")
             ELSE LET pval == usize_pow(base, i)
                  IN  IF ~pval.ok THEN pval
                      ELSE LET prod == usize_mul(char_val, pval.val)
                           IN  IF ~prod.ok THEN prod
                               ELSE LET sum == usize_add(out_val, prod.val)
                                    IN  IF ~sum.ok THEN sum
                                        ELSE base_to_dec_loop(in_str, base, i + 1, sum.val)

\* the radix prefixes "0x", "0b", "0o"
RadixPrefixes == {<<48, 120>>, <<48, 98>>, <<48, 111>>}

\* the for loop without .rev(): i counts characters from the left
RECURSIVE base_to_dec_loop_norev(_, _, _, _)
base_to_dec_loop_norev(in_str, base, i, out_val) ==
    IF i = Len(in_str) THEN Ok(out_val)
    ELSE LET char_val == map_char(in_str[i + 1])
         IN  IF char_val = None THEN PanicNum("unwrap")
             ELSE LET pval == usize_pow(base, i)
                  IN  IF ~pval.ok THEN pval
                      ELSE LET prod == usize_mul(char_val, pval.val)
                           IN  IF ~prod.ok THEN prod
                               ELSE LET sum == usize_add(out_val, prod.val)
                                    IN  IF ~sum.ok THEN sum
                                        ELSE base_to_dec_loop_norev(in_str, base, i + 1, sum.val)

\* base_to_dec whose loop reads the characters left to right
base_to_dec_norev(in_val, base) ==
    IF Len(in_val) = 1 THEN
        LET d == map_char(in_val[1])
        IN  IF d = None THEN PanicNum("unwrap") ELSE Ok(d)
    ELSE IF Len(in_val) < 2 THEN PanicNum("slice")
    ELSE LET in_str == IF SubSeq(in_val, 1, 2) \in RadixPrefixes
                       THEN SubSeq(in_val, 3, Len(in_val))
                       ELSE in_val
         IN  base_to_dec_loop_norev(in_str, base, 0, 0)

base_to_dec(in_val, base) ==
    IF Len(in_val) = 1 THEN
        LET d == map_char(in_val[1])
        IN  IF d = None THEN PanicNum("unwrap") ELSE Ok(d)
    ELSE IF Len(in_val) < 2 THEN PanicNum("slice")
    ELSE LET in_str == IF SubSeq(in_val, 1, 2) \in RadixPrefixes
                       THEN SubSeq(in_val, 3, Len(in_val))
                       ELSE in_val
         IN  base_to_dec_loop(in_str, base, 0, 0)

(* ------------------------------ encoder --------------------------------- *)

\* the while loop of dec_to_base
RECURSIVE dec_to_base_loop(_, _, _)
dec_to_base_loop(cur_val, base, output) ==
    IF cur_val = 0 THEN Ok(output)
    ELSE LET quot == cur_val \div base
             rem  == cur_val % base
         IN  IF rem > U8Max THEN PanicStr("unwrap")
             ELSE IF char_map(rem) = None THEN PanicStr("whoops")
             ELSE dec_to_base_loop(quot, base, <<char_map(rem)>> \o output)

\* dec_to_base without the zero special case
dec_to_base_nozero(in_dec, base) == dec_to_base_loop(in_dec, base, <<>>)

dec_to_base(in_dec, base) ==
    IF in_dec = 0 THEN Ok(<<Zero>>)
    ELSE dec_to_base_loop(in_dec, base, <<>>)

(* ---------------------------- orchestrator ------------------------------ *)

\* convert_value that drops the sign instead of putting it back
convert_value_nosign(bases, val) ==
    IF val = <<>> THEN PanicStr("unwrap")
    ELSE LET is_neg  == val[1] = Minus
             use_val == IF is_neg THEN Tail(val) ELSE val
         IN  IF bases[1] = 10 THEN
                 LET dec_val == parse_unsigned(use_val, UsizeMax)
                 IN  IF ~dec_val.ok THEN PanicStr("unwrap")
                     ELSE dec_to_base(dec_val.val, bases[2])
             ELSE LET b2d == base_to_dec(use_val, bases[1])
                  IN  IF ~b2d.ok THEN PanicStr(b2d.err)
                      ELSE IF bases[2] = 10 THEN Ok(format_usize(b2d.val))
                      ELSE dec_to_base(b2d.val, bases[2])

convert_value(bases, val) ==
    IF val = <<>> THEN PanicStr("unwrap")
    ELSE LET is_neg   == val[1] = Minus
             use_val  == IF is_neg THEN Tail(val) ELSE val
             conv_val ==
                 IF bases[1] = 10 THEN
                     LET dec_val == parse_unsigned(use_val, UsizeMax)
                     IN  IF ~dec_val.ok THEN PanicStr("unwrap")
                         ELSE dec_to_base(dec_val.val, bases[2])
                 ELSE IF bases[2] = 10 THEN
                     LET b2d == base_to_dec(use_val, bases[1])
                     IN  IF ~b2d.ok THEN PanicStr(b2d.err)
                         ELSE Ok(format_usize(b2d.val))
                 ELSE
                     LET b2d == base_to_dec(use_val, bases[1])
                     IN  IF ~b2d.ok THEN PanicStr(b2d.err)
                         ELSE dec_to_base(b2d.val, bases[2])
         IN  IF ~conv_val.ok THEN conv_val
             ELSE IF is_neg THEN Ok(<<Minus>> \o conv_val.val)
             ELSE conv_val

(* ------------------------------ validator ------------------------------- *)

\* the match on one base argument: "ok", or the diagnostic it exits with
check_base(s) ==
    LET v == parse_unsigned(s, UsizeMax)
    IN  IF ~v.ok THEN "not_usize"
        ELSE IF v.val >= BaseMin /\ v.val <= BaseMax THEN "ok"
        ELSE "not_a_base"

\* check_args: [status |-> "ok"], or "exit" for process::exit(1) with the
\* diagnostic written, or "panic" for a failed unwrap
check_args(a) ==
    IF Len(a) # 3 THEN [status |-> "exit", diag |-> "usage"]
    ELSE IF check_base(a[1]) # "ok" THEN [status |-> "exit", diag |-> check_base(a[1])]
    ELSE IF check_base(a[2]) # "ok" THEN [status |-> "exit", diag |-> check_base(a[2])]
    ELSE LET b == parse_unsigned(a[1], U8Max)
         IN  IF ~b.ok \/ char_map(b.val) = None THEN [status |-> "panic", diag |-> "unwrap"]
             ELSE LET max_char == char_map(b.val)
                  IN  IF \E k \in 1..Len(a[3]) : a[3][k] >= max_char
                      THEN [status |-> "exit", diag |-> "exceeds_max"]
                      ELSE [status |-> "ok", diag |-> "none"]

(* ------------------------------ inputs ---------------------------------- *)

\* characters of the digit bodies drawn as input: ! 0 1 G f g z
BodyChars == {33, 48, 49, 71, 102, 103, 122}

\* the strings over cs of length at most n
Strings(cs, n) == UNION {[1..k -> cs] : k \in 0..n}

\* a value argument: an optional '-', an optional radix prefix, a digit body
Values ==
    {sign \o prefix \o body :
        sign \in {<<>>, <<Minus>>},
        prefix \in {<<>>} \cup RadixPrefixes,
        body \in Strings(BodyChars, MaxDigits)}

\* base arguments: "1" "2" "10" "16" "36" "37", "+16" and "x"
BaseArgs ==
    {format_usize(b) : b \in {1, 2, 10, 16, 36, 37}} \cup {<<Plus, 49, 54>>, <<120>>}

\* destination base arguments: "2" "10" "16" "0"
DestArgs == {format_usize(b) : b \in {0, 2, 10, 16}}

\* argument lists: every triple, and lists of another length
IsArgList(l) ==
    \/ \E a \in BaseArgs, b \in DestArgs, v \in Values : l = <<a, b, v>>
    \/ l = <<>>
    \/ \E a \in BaseArgs : l = <<a>>
    \/ \E a \in BaseArgs, b \in DestArgs : l = <<a, b>>
    \/ \E a \in BaseArgs, b \in DestArgs : l = <<a, b, <<Zero>>, <<Zero>> >>

\* destination bases of the direct calls of convert_value
DestBases == {2, 10, 16, 36}

\* numerals of the direct calls of base_to_dec: an optional prefix, a body
Numerals ==
    {prefix \o body :
        prefix \in {<<>>} \cup RadixPrefixes,
        body \in Strings(BodyChars, MaxDigits)}

\* the calls of the unit tests, generalised from their tables
IsTestCall(c) ==
    \/ \E i \in 0..U8Max : c = [fn |-> "char_map", i |-> i]
    \/ \E ch \in 0..127 : c = [fn |-> "map_char", c |-> ch]
    \/ \E m \in 0..UsizeMax, b \in Bases :
          c = [fn |-> "dec_to_base", in_dec |-> m, base |-> b]
    \/ \E s \in Numerals, b \in Bases :
          c = [fn |-> "base_to_dec", in_val |-> s, base |-> b]
    \/ \E b1 \in Bases, b2 \in DestBases, v \in Values :
          c = [fn |-> "convert_value", bases |-> <<b1, b2>>, val |-> v]

(* --------------------------- the program run ---------------------------- *)

Init ==
    /\ overflow_checks \in BOOLEAN
    /\ pc = "get_args"
    /\ IsArgList(args)
    /\ stdout = <<>>
    /\ stderr = "none"
    /\ exit_code = None
    /\ call = [fn |-> "none"]
    /\ ret = Ok(0)

\* get_args: collect the arguments and check them
GetArgs ==
    /\ pc = "get_args"
    /\ LET r == check_args(args)
       IN  IF r.status = "ok"
           THEN /\ pc' = "main"
                /\ UNCHANGED <<stderr, exit_code>>
           ELSE /\ pc' = "exited"
                /\ stderr' = r.diag
                /\ exit_code' = IF r.status = "exit" THEN 1 ELSE PanicStatus
    /\ UNCHANGED <<overflow_checks, args, stdout, call, ret>>

\* main after get_args: parse the bases, convert, print
Main ==
    /\ pc = "main"
    /\ LET b1 == parse_unsigned(args[1], UsizeMax)
           b2 == parse_unsigned(args[2], UsizeMax)
           r  == IF b1.ok /\ b2.ok
                 THEN convert_value(<<b1.val, b2.val>>, args[3])
                 ELSE PanicStr("unwrap")
       IN  IF r.ok
           THEN /\ stdout' = Append(stdout, r.val)
                /\ stderr' = stderr
                /\ exit_code' = 0
           ELSE /\ stdout' = stdout
                /\ stderr' = "panic"
                /\ exit_code' = PanicStatus
    /\ pc' = "exited"
    /\ UNCHANGED <<overflow_checks, args, call, ret>>

Next == GetArgs \/ Main

Spec == Init /\ [][Next]_vars

(* ----------------------------- unit tests ------------------------------- *)

TestInit ==
    /\ overflow_checks \in BOOLEAN
    /\ pc = "test"
    /\ args = <<>>
    /\ stdout = <<>>
    /\ stderr = "none"
    /\ exit_code = None
    /\ IsTestCall(call)
    /\ ret = Ok(0)

char_map_test ==
    /\ pc = "test"
    /\ call.fn = "char_map"
    /\ ret' = Ok(char_map(call.i))
    /\ pc' = "returned"
    /\ UNCHANGED <<overflow_checks, args, stdout, stderr, exit_code, call>>

map_char_test ==
    /\ pc = "test"
    /\ call.fn = "map_char"
    /\ ret' = Ok(map_char(call.c))
    /\ pc' = "returned"
    /\ UNCHANGED <<overflow_checks, args, stdout, stderr, exit_code, call>>

dec_to_base_test ==
    /\ pc = "test"
    /\ call.fn = "dec_to_base"
    /\ ret' = dec_to_base(call.in_dec, call.base)
    /\ pc' = "returned"
    /\ UNCHANGED <<overflow_checks, args, stdout, stderr, exit_code, call>>

base_to_dec_test ==
    /\ pc = "test"
    /\ call.fn = "base_to_dec"
    /\ ret' = base_to_dec(call.in_val, call.base)
    /\ pc' = "returned"
    /\ UNCHANGED <<overflow_checks, args, stdout, stderr, exit_code, call>>

convert_value_test ==
    /\ pc = "test"
    /\ call.fn = "convert_value"
    /\ ret' = convert_value(call.bases, call.val)
    /\ pc' = "returned"
    /\ UNCHANGED <<overflow_checks, args, stdout, stderr, exit_code, call>>

TestNext ==
    \/ char_map_test
    \/ map_char_test
    \/ dec_to_base_test
    \/ base_to_dec_test
    \/ convert_value_test

TestSpec == TestInit /\ [][TestNext]_vars

(* ------------------------- vocabulary of the claims --------------------- *)

\* the call of function f has returned
Returned(f) == pc = "returned" /\ call.fn = f

\* c is one of '0'..'9', 'A'..'Z', 'a'..'z'
IsAlnum(c) == c \in (48..57) \cup (65..90) \cup (97..122)

\* the digit value of an alphanumeric character, case-insensitive
DigitValue(c) ==
    IF c \in 48..57 THEN c - 48
    ELSE IF c \in 65..90 THEN c - 55
    ELSE c - 87

\* every character of s is a digit of base b, and there is at least one
ValidDigits(s, b) ==
    /\ Len(s) >= 1
    /\ \A k \in 1..Len(s) : IsAlnum(s[k]) /\ DigitValue(s[k]) < b

\* s starts with "0x", "0b" or "0o"
HasPrefix(s) == Len(s) >= 2 /\ SubSeq(s, 1, 2) \in RadixPrefixes

\* s without its radix prefix, if it has one and is longer than that
Unprefixed(s) == IF HasPrefix(s) THEN SubSeq(s, 3, Len(s)) ELSE s

\* a non-negative numeral of base b: digits of b, after an optional prefix
ValidNumeral(s, b) == ValidDigits(s, b) \/ (HasPrefix(s) /\ ValidDigits(Unprefixed(s), b))

\* the exact value of the digit string s in base b (no machine width)
RECURSIVE Magnitude(_, _)
Magnitude(s, b) ==
    IF s = <<>> THEN 0
    ELSE Magnitude(SubSeq(s, 1, Len(s) - 1), b) * b + DigitValue(s[Len(s)])

\* the exact power b^n
RECURSIVE ExactPow(_, _)
ExactPow(b, n) == IF n <= 0 THEN 1 ELSE b * ExactPow(b, n - 1)

\* the decoder's digits of numeral s: all of a one-character numeral,
\* otherwise what follows the prefix
DecodedDigits(s) == IF Len(s) = 1 THEN s ELSE Unprefixed(s)

\* decoding s in base b leaves the usize range: the magnitude does, or a
\* power base^position does
Overflows(s, b) ==
    \/ Magnitude(DecodedDigits(s), b) > UsizeMax
    \/ Len(s) > 1 /\ ExactPow(b, Len(DecodedDigits(s)) - 1) > UsizeMax

\* the argument list is a triple whose two bases the validator accepts
GoodBases == Len(args) = 3 /\ check_base(args[1]) = "ok" /\ check_base(args[2]) = "ok"

SrcBase == parse_unsigned(args[1], UsizeMax).val

DstBase == parse_unsigned(args[2], UsizeMax).val

(* -------------------------------- claims -------------------------------- *)

\* C1: decoding what the encoder produced gives the magnitude back, for
\* every base in 2..36 and every magnitude of the usize range.
C1_RoundTrip ==
    Returned("dec_to_base") =>
        /\ ret.ok
        /\ base_to_dec(ret.val, call.base) = Ok(call.in_dec)

\* C1 witness: a two-digit encoder output decoded back to its magnitude
C1_Witness ==
    /\ Returned("dec_to_base")
    /\ overflow_checks
    /\ call.base = 16
    /\ call.in_dec = 171
    /\ ret.val = <<97, 98>>
    /\ base_to_dec(ret.val, call.base) = Ok(171)

\* C2: convert_value of "-" followed by a valid non-negative numeral v is
\* "-" followed by convert_value of v (and fails exactly when that fails),
\* whether the source base is 10, the destination base is 10, or neither.
C2_SignPreserved ==
    (/\ Returned("convert_value")
     /\ Len(call.val) >= 2
     /\ call.val[1] = Minus
     /\ ValidNumeral(Tail(call.val), call.bases[1]))
    => LET r == convert_value(call.bases, Tail(call.val))
       IN  /\ ret.ok = r.ok
           /\ r.ok => ret.val = <<Minus>> \o r.val

\* C2 witness: "-f" from base 16 to base 2 gives "-1111"
C2_Witness ==
    /\ Returned("convert_value")
    /\ call.bases = <<16, 2>>
    /\ call.val = <<Minus, 102>>
    /\ ret = Ok(<<Minus, 49, 49, 49, 49>>)

\* C3: a run whose value is a radix prefix followed by a valid numeral v of
\* the source base passes validation and prints what the run on v prints.
C3_PrefixSupported ==
    (/\ pc = "exited"
     /\ GoodBases
     /\ HasPrefix(args[3])
     /\ ValidDigits(Unprefixed(args[3]), SrcBase)
     /\ convert_value(<<SrcBase, DstBase>>, Unprefixed(args[3])).ok)
    => /\ exit_code = 0
       /\ stdout = <<convert_value(<<SrcBase, DstBase>>, Unprefixed(args[3])).val>>

\* C4: the validator rejects (exit status 1) every value that contains a
\* digit character, of either case, whose value is not below the source base.
C4_RejectsOutOfRange ==
    (/\ pc # "get_args"
     /\ GoodBases
     /\ \E k \in 1..Len(args[3]) :
            IsAlnum(args[3][k]) /\ DigitValue(args[3][k]) >= SrcBase)
    => /\ pc = "exited"
       /\ exit_code = 1
       /\ stdout = <<>>

\* C5: with source base 36 the validator accepts a value of alphanumeric
\* characters with a 'z' in it, and rejects a value that contains a
\* character that is not alphanumeric.
C5_Base36 ==
    (/\ pc # "get_args"
     /\ GoodBases
     /\ SrcBase = 36)
    => /\ ((\E k \in 1..Len(args[3]) : args[3][k] = 122)
            /\ (\A k \in 1..Len(args[3]) : IsAlnum(args[3][k])))
          => exit_code # 1
       /\ (\E k \in 1..Len(args[3]) : ~IsAlnum(args[3][k]))
          => exit_code = 1

\* C6: a run ends either with the converted value printed and status 0, or
\* with a diagnostic, nothing printed and status 1; no run that passed the
\* validator ends by a panic.
C6_TwoOutcomes ==
    pc = "exited" =>
        \/ exit_code = 0 /\ Len(stdout) = 1 /\ stderr = "none"
        \/ exit_code = 1 /\ stdout = <<>> /\ stderr # "none"

\* C7 as stated: base_to_dec fails whenever a character of the numeral (its
\* prefix aside) is no digit character or has a digit value not below the base.
C7_RejectsIllegalDigits ==
    (/\ Returned("base_to_dec")
     /\ \E k \in 1..Len(DecodedDigits(call.in_val)) :
            \/ ~IsAlnum(DecodedDigits(call.in_val)[k])
            \/ DigitValue(DecodedDigits(call.in_val)[k]) >= call.base)
    => ~ret.ok

\* C7 amended: base_to_dec fails whenever a character of the numeral is not
\* alphanumeric; a digit character whose value is not below the base is not
\* rejected: without overflow checks every non-empty alphanumeric numeral
\* returns a magnitude.
C7_RejectsNonAlnum ==
    Returned("base_to_dec") =>
        /\ (\E k \in 1..Len(call.in_val) : ~IsAlnum(call.in_val[k])) => ~ret.ok
        /\ (/\ ~overflow_checks
            /\ call.in_val # <<>>
            /\ \A k \in 1..Len(call.in_val) : IsAlnum(call.in_val[k]))
           => ret.ok

\* C7 witness: "1!" fails in base 16, while "G" returns 16 in base 16
C7_Witness ==
    /\ Returned("base_to_dec")
    /\ call.base = 16
    /\ call.in_val = <<49, 33>>
    /\ ~ret.ok
    /\ base_to_dec(<<71>>, 16) = Ok(16)

\* C8 as stated: char_map gives '0'..'9' on 0..9, 'a'..'z' on 10..35 and
\* None everywhere else, 36 included.
C8_DefinedOn0To35 ==
    Returned("char_map") =>
        /\ call.i \in 0..9 => ret.val = 48 + call.i
        /\ call.i \in 10..35 => ret.val = 97 + (call.i - 10)
        /\ call.i >= 36 => ret.val = None

\* C8 amended: char_map is defined exactly on 0..36: '0'..'9' on 0..9,
\* 'a'..'z' on 10..35, '{' on 36, and None on 37..255.
C8_DefinedOn0To36 ==
    Returned("char_map") =>
        /\ call.i \in 0..9 => ret.val = 48 + call.i
        /\ call.i \in 10..35 => ret.val = 97 + (call.i - 10)
        /\ call.i = 36 => ret.val = 123
        /\ call.i >= 37 => ret.val = None

\* C8 witness: char_map(36) returned '{'
C8_Witness == Returned("char_map") /\ call.i = 36 /\ ret.val = 123

\* C9: decoding a valid numeral whose magnitude, or a power base^position,
\* leaves the usize range fails, in base_to_dec and in convert_value, and
\* never returns a wrapped value.
C9_OverflowFails ==
    /\ (/\ Returned("base_to_dec")
        /\ ValidNumeral(call.in_val, call.base)
        /\ Overflows(call.in_val, call.base))
       => ~ret.ok
    /\ (/\ Returned("convert_value")
        /\ call.bases[1] # 10
        /\ ValidNumeral(call.val, call.bases[1])
        /\ Overflows(call.val, call.bases[1]))
       => ~ret.ok

\* C10: dec_to_base(0, b) is "0"; for m > 0 it returns a non-empty string
\* that does not start with '0', whose characters are lowercase digits of
\* value below b, and that reads m most-significant digit first.
C10_Canonical ==
    Returned("dec_to_base") =>
        /\ ret.ok
        /\ call.in_dec = 0 => ret.val = <<48>>
        /\ call.in_dec > 0 =>
              /\ Len(ret.val) >= 1
              /\ ret.val[1] # 48
              /\ \A k \in 1..Len(ret.val) :
                    /\ ret.val[k] \in (48..57) \cup (97..122)
                    /\ DigitValue(ret.val[k]) < call.base
              /\ Magnitude(ret.val, call.base) = call.in_dec

\* C10 witness: 255 in base 36 is "73"
C10_Witness ==
    /\ Returned("dec_to_base")
    /\ call.in_dec = 255
    /\ call.base = 36
    /\ ret.val = <<55, 51>>

====
